---- MODULE Spec2Model ----
(***************************************************************************)
(* Payment-forwarding agent (app.py and its near-duplicate app2.py):       *)
(* the stream loop of main, the event filter and amount computation of     *)
(* handle_payment, and the retry / fee-escalation recursion of             *)
(* send_payment.                                                           *)
(*                                                                         *)
(* Amounts are integer counts of the minimum unit 1e-7.  A paging_token is *)
(* the position of the operation in the account's payment history, so the  *)
(* stream opened at cursor c yields the operations at positions > c.       *)
(***************************************************************************)
EXTENDS Integers, Sequences, FiniteSets, TLC

\* ------------------------------------------------------------------ bounds
MaxLedger == 2        \* external operations that arrive on the account
MaxTransient == 1     \* timeout / tx_bad_seq / tx_too_late responses the
                      \* network gives while the agent runs
MaxAmount == 12       \* largest incoming amount (units) of a drawn event

\* -------------------------------------------------------- program constants
DISTRIBUTOR_ADDRESS == "D"
RECEIVER_ADDRESS == "R"
OTHER_ADDRESS == "X"
SEND_PERCENT == 25    \* Decimal("0.25"), as hundredths
MIN_INCOMING_XLM == 0
DefaultFee == 100     \* default of the parameter min_gas_fee
FeeCap == 2000        \* literal of the test min_gas_fee < 2000
NOW == -1             \* the cursor "now"
NoCursor == -2        \* nothing persisted yet
NoEvent == 0

\* ------------------------------------------------------------------ state
VARIABLES
  app,          \* 1: app.py runs, 2: app2.py runs
  receiver,     \* the configured RECEIVER_ADDRESS
  logFault,     \* the log file cannot always be written
  pc,           \* "open": about to (re)open the stream; "stream": in the for
                \* loop waiting for the next event; "send": in send_payment
  ledger,       \* payment history of the distributor account, oldest first
  cursor,       \* main's local variable cursor
  savedCursor,  \* what save_cursor persisted
  streamPos,    \* position of the last operation the open stream passed
  min_gas_fee,  \* parameter min_gas_fee of the running send_payment call
  amount,       \* parameter amount of the running invocation
  current,      \* position of the event whose forward is being dispatched
  transients,   \* timeout / tx_bad_seq / tx_too_late responses the running
                \* invocation received
  outages,      \* such responses the network has given to all invocations
  feeResponses, \* tx_insufficient_fee responses it received
  response,     \* outcome of its last attempt
  records,      \* records log_result wrote for the last event handled
  applied,      \* payments the network applied for the last event handled
  decision,     \* what handle_payment did with the last event it was given
  observed,     \* per position: times the stream yielded the operation
  delivered,    \* per position: times handle_payment was called with it
  started,      \* per position: top-level send_payment calls it caused
  lastYielded,  \* position of the last event yielded to this process run
  openedAt      \* position the stream started from when it was last opened

vars == <<app, receiver, logFault, pc, ledger, cursor, savedCursor, streamPos,
          min_gas_fee, amount, current, transients, outages, feeResponses,
          response, records, applied, decision, observed, delivered, started,
          lastYielded, openedAt>>

dispatcherVars == <<min_gas_fee, amount, current, transients, outages,
                    feeResponses, response, records, applied>>
configVars == <<app, receiver, logFault>>
historyVars == <<observed, delivered, started>>

\* ----------------------------------------------------------- event domains
Types == {"payment", "path_payment_strict_send"}
AssetTypes == {"native", "credit_alphanum4"}
Addresses == {DISTRIBUTOR_ADDRESS, OTHER_ADDRESS}

\* every combination of the fields handle_payment reads
Events ==
  [type : Types, transaction_successful : BOOLEAN, asset_type : AssetTypes,
   to : Addresses, from : Addresses, amount : -1 .. MaxAmount]

\* the operations of other accounts that arrive while the agent runs: a
\* payment large enough to forward and one too small to
ArrivingEvents ==
  [type : {"payment"}, transaction_successful : {TRUE},
   asset_type : {"native"}, to : {DISTRIBUTOR_ADDRESS},
   from : {OTHER_ADDRESS}, amount : {3, 16}]

\* the payment a successful submission puts on the account's history
ForwardEvent(dest, amt) ==
  [type |-> "payment", transaction_successful |-> TRUE,
   asset_type |-> "native", to |-> dest, from |-> DISTRIBUTOR_ADDRESS,
   amount |-> amt]

\* ---------------------------------------------------------- pure functions
Abs(x) == IF x < 0 THEN -x ELSE x
Sgn(x) == IF x < 0 THEN -1 ELSE 1

\* (incoming * SEND_PERCENT).quantize(Decimal("0.0000001"), ROUND_DOWN):
\* the exact product in units of 1e-9, cut to whole units toward zero
QuantizeHalfUp(product) == Sgn(product) * ((Abs(product) + 50) \div 100)
Quantize(product) == Sgn(product) * (Abs(product) \div 100)
SendAmount(incoming) == Quantize(incoming * SEND_PERCENT)

\* round(incoming * SEND_PERCENT, 7) on floats: the nearest unit.  At an
\* exact decimal tie the double that holds the product decides: it lies below
\* the tie for 2, 6, 10, 14 and 18 units and above it for 22 .. 38; beyond
\* that range either neighbour is allowed for
TieRoundsUp == {22, 26, 30, 34, 38}
TieRoundsDown == {2, 6, 10, 14, 18}
Round7(incoming) ==
  LET product == incoming * SEND_PERCENT
      low == Sgn(product) * (Abs(product) \div 100)
      rest == Abs(product) % 100
  IN  IF rest < 50 THEN {low}
      ELSE IF rest > 50 THEN {low + Sgn(product)}
      ELSE IF incoming \in TieRoundsDown THEN {low}
      ELSE IF incoming \in TieRoundsUp THEN {low + Sgn(product)}
      ELSE {low, low + Sgn(product)}

\* the early returns of handle_payment in app.py, in order
FilterNoSelfCheck(payment) ==
  IF payment.type # "payment" THEN FALSE
  ELSE IF ~payment.transaction_successful THEN FALSE
  ELSE IF payment.asset_type # "native" THEN FALSE
  ELSE IF payment.to # DISTRIBUTOR_ADDRESS THEN FALSE
  ELSE IF payment.amount < MIN_INCOMING_XLM THEN FALSE
  ELSE TRUE
Filter(payment) ==
  IF payment.type # "payment" THEN FALSE
  ELSE IF ~payment.transaction_successful THEN FALSE
  ELSE IF payment.asset_type # "native" THEN FALSE
  ELSE IF payment.to # DISTRIBUTOR_ADDRESS THEN FALSE
  ELSE IF payment.from = DISTRIBUTOR_ADDRESS THEN FALSE
  ELSE IF payment.amount < MIN_INCOMING_XLM THEN FALSE
  ELSE TRUE

\* the early returns of handle_payment in app2.py, in order
Filter2(payment) ==
  IF payment.type # "payment" THEN FALSE
  ELSE IF payment.asset_type # "native" THEN FALSE
  ELSE IF payment.to # DISTRIBUTOR_ADDRESS THEN FALSE
  ELSE IF payment.from = DISTRIBUTOR_ADDRESS THEN FALSE
  ELSE IF payment.amount < MIN_INCOMING_XLM THEN FALSE
  ELSE TRUE

\* streamPayments(account, cursor): where the stream opened with this cursor
\* starts; "now" is the end of the history at the time of opening
StreamStartFromOrigin(c, history) == IF c = NOW THEN 0 ELSE c
StreamStart(c, history) == IF c = NOW THEN Len(history) ELSE c

\* save_cursor(cursor): the value is persisted (TRUE) or the call raises
SaveCursorOutcomes == BOOLEAN

\* cursor = "now", first assignment of main
InitialCursorOrigin == NOW + 1   \* cursor "0": the start of the history
InitialCursor == NOW

\* cursor = payment["paging_token"], first statement of the loop body
CursorAfterEventStale(c, token) == c
CursorAfterEvent(c, token) == token

\* ------------------------------------------------- send_payment's responses
Transient == {"timeout_504", "tx_bad_seq", "tx_too_late"}
Responses ==
  {"successful", "unsuccessful", "tx_insufficient_fee", "op_underfunded",
   "other_error"} \cup Transient

\* what send_payment does with the outcome of an attempt made at fee
DispositionCapTwice(r, fee) ==
  IF r = "successful" THEN "Success"
  ELSE IF r = "unsuccessful" THEN "Failed"
  ELSE IF r \in Transient THEN "retry"
  ELSE IF r = "tx_insufficient_fee"
       THEN IF fee < 2 * FeeCap THEN "retry" ELSE "Failed"
  ELSE "Failed"
DispositionRetryUnderfunded(r, fee) ==
  IF r = "successful" THEN "Success"
  ELSE IF r = "unsuccessful" THEN "Failed"
  ELSE IF r \in Transient \cup {"op_underfunded"} THEN "retry"
  ELSE IF r = "tx_insufficient_fee"
       THEN IF fee < FeeCap THEN "retry" ELSE "Failed"
  ELSE "Failed"
Disposition(r, fee) ==
  IF r = "successful" THEN "Success"
  ELSE IF r = "unsuccessful" THEN "Failed"
  ELSE IF r \in Transient THEN "retry"
  ELSE IF r = "tx_insufficient_fee"
       THEN IF fee < FeeCap THEN "retry" ELSE "Failed"
  ELSE "Failed"

\* the min_gas_fee of the recursive call: passed only on the fee branch
RetryFeeAdditive(r, fee) ==
  IF r = "tx_insufficient_fee" THEN fee + DefaultFee ELSE DefaultFee
RetryFee(r, fee) ==
  IF r = "tx_insufficient_fee" THEN fee * 2 ELSE DefaultFee

\* which responses leave the payment applied on the ledger: a success does,
\* a gateway timeout may (the transaction can still be included), the
\* rejections do not
MayApply(r) ==
  IF r = "successful" THEN {TRUE}
  ELSE IF r = "timeout_504" THEN BOOLEAN
  ELSE {FALSE}

\* log_result: the record it appends to the log file
log_resultFailuresDropped(log, destination_address, amt, success) ==
  IF success
    THEN Append(log, [result |-> "Success",
                      destination |-> destination_address, amount |-> amt])
    ELSE log
log_result(log, destination_address, amt, success) ==
  Append(log, [result |-> IF success THEN "Success" ELSE "Failed",
               destination |-> destination_address, amount |-> amt])

\* open(log_filename, "a") / f.write: returns (TRUE) or raises (FALSE)
WriteOutcomes(faulty) == IF faulty THEN BOOLEAN ELSE {TRUE}

\* the responses whose log_result call is inside the try block
LoggedInTry == {"successful", "unsuccessful"}

\* "for payment in payments.stream(): ... handle_payment(payment)": the next
\* event is taken from the stream only when the loop body has returned
NextEventTakenDuringSend(p) == p \in {"stream", "send"}
NextEventTaken(p) == p = "stream"

\* ------------------------------------------------------------------- Init
InitProgram ==
  /\ app \in {1, 2}
  /\ pc = "open"
  /\ ledger = <<>>
  /\ cursor = InitialCursor
  /\ savedCursor = NoCursor
  /\ streamPos = 0
  /\ min_gas_fee = DefaultFee
  /\ amount = 0
  /\ current = NoEvent
  /\ transients = 0
  /\ outages = 0
  /\ feeResponses = 0
  /\ response = "none"
  /\ records = <<>>
  /\ applied = 0
  /\ decision = "none"
  /\ observed = <<>>
  /\ delivered = <<>>
  /\ started = <<>>
  /\ lastYielded = NoEvent
  /\ openedAt = NoCursor

\* the usual configuration: another account receives, the log is writable
Init ==
  /\ receiver = RECEIVER_ADDRESS
  /\ logFault = FALSE
  /\ InitProgram

\* ---------------------------------------------------------------- actions
Bump(counts, i) == [counts EXCEPT ![i] = @ + 1]

\* an operation of somebody else lands on the account
LedgerAppend ==
  /\ Len(ledger) < MaxLedger
  /\ \E e \in ArrivingEvents : ledger' = Append(ledger, e)
  /\ observed' = Append(observed, 0)
  /\ delivered' = Append(delivered, 0)
  /\ started' = Append(started, 0)
  /\ UNCHANGED <<configVars, pc, cursor, savedCursor, streamPos,
                 dispatcherVars, decision, lastYielded, openedAt>>

\* main: server.payments().for_account(...).cursor(cursor), payments.stream()
OpenStream ==
  /\ pc = "open"
  /\ pc' = "stream"
  /\ streamPos' = StreamStart(cursor, ledger)
  /\ openedAt' = streamPos'
  /\ UNCHANGED <<configVars, ledger, cursor, savedCursor, dispatcherVars,
                 decision, historyVars, lastYielded>>

\* the stream raises; main's except prints, sleeps 5 and loops
StreamError ==
  /\ pc = "stream"
  /\ pc' = "open"
  /\ UNCHANGED <<configVars, ledger, cursor, savedCursor, streamPos,
                 dispatcherVars, decision, historyVars, lastYielded, openedAt>>

\* handle_payment returned before it called send_payment: the event has no
\* invocation, no log file and no payment of its own
NoInvocation ==
  /\ min_gas_fee' = DefaultFee
  /\ amount' = 0
  /\ current' = NoEvent
  /\ transients' = 0
  /\ feeResponses' = 0
  /\ response' = "none"
  /\ records' = <<>>
  /\ applied' = 0

\* handle_payment(payment) up to the call of send_payment, for the event at
\* position i whose forward amount is amt: the state it leaves behind
HandlePayment(i, accepted, amt) ==
  /\ delivered' = Bump(delivered, i)
  /\ outages' = outages
  /\ IF ~accepted
       THEN /\ decision' = "filtered"
            /\ pc' = "stream"
            /\ started' = started
            /\ NoInvocation
     ELSE IF amt <= 0
       THEN /\ decision' = "no_forward"
            /\ pc' = "stream"
            /\ started' = started
            /\ NoInvocation
     ELSE /\ decision' = "forward"
          /\ pc' = "send"
          /\ started' = Bump(started, i)
          /\ min_gas_fee' = DefaultFee
          /\ amount' = amt
          /\ current' = i
          /\ transients' = 0
          /\ feeResponses' = 0
          /\ response' = "none"
          /\ records' = <<>>
          /\ applied' = 0

\* app.py, one iteration of "for payment in payments.stream()"
StreamYield ==
  /\ app = 1
  /\ NextEventTaken(pc)
  /\ streamPos < Len(ledger)
  /\ LET i == streamPos + 1
         payment == ledger[i]
     IN  /\ streamPos' = i
         /\ observed' = Bump(observed, i)
         /\ lastYielded' = i
         /\ cursor' = CursorAfterEvent(cursor, i)
         /\ \E saved \in SaveCursorOutcomes :
              IF saved
                THEN /\ savedCursor' = cursor'
                     /\ HandlePayment(i, Filter(payment),
                                      SendAmount(payment.amount))
                ELSE \* save_cursor raises: caught by main's except
                     /\ pc' = "open"
                     /\ UNCHANGED <<savedCursor, dispatcherVars, decision,
                                    delivered, started>>
  /\ UNCHANGED <<configVars, ledger, openedAt>>

\* app2.py, one iteration of "for payment in payments.stream()"
StreamYield2 ==
  /\ app = 2
  /\ NextEventTaken(pc)
  /\ streamPos < Len(ledger)
  /\ LET i == streamPos + 1
         payment == ledger[i]
     IN  /\ streamPos' = i
         /\ observed' = Bump(observed, i)
         /\ lastYielded' = i
         /\ \E amt \in Round7(payment.amount) :
              HandlePayment(i, Filter2(payment), amt)
  /\ UNCHANGED <<configVars, ledger, cursor, savedCursor, openedAt>>

\* one call of send_payment: an attempt, its outcome r, and what the code
\* does with it: log_result and return, or sleep and recurse.  A log_result
\* that raises inside the try block is caught by send_payment's own except
\* and logged again as a failure by its else branch; one that raises inside
\* the except block leaves send_payment: main's except reopens the stream
\* (app.py), or handle_payment's except prints and returns (app2.py)
send_payment ==
  /\ pc = "send"
  /\ \E r \in Responses :
       LET d == Disposition(r, min_gas_fee) IN
       /\ r \in Transient => outages < MaxTransient
       /\ outages' = IF r \in Transient THEN outages + 1 ELSE outages
       /\ response' = r
       /\ transients' = IF r \in Transient THEN transients + 1 ELSE transients
       /\ feeResponses' =
            IF r = "tx_insufficient_fee" THEN feeResponses + 1
            ELSE feeResponses
       /\ \E landed \in MayApply(r) :
            IF landed
              THEN /\ ledger' = Append(ledger, ForwardEvent(receiver, amount))
                   /\ observed' = Append(observed, 0)
                   /\ delivered' = Append(delivered, 0)
                   /\ started' = Append(started, 0)
                   /\ applied' = applied + 1
              ELSE UNCHANGED <<ledger, historyVars, applied>>
       /\ IF d = "retry"
            THEN /\ min_gas_fee' = RetryFee(r, min_gas_fee)
                 /\ pc' = "send"
                 /\ records' = records
            ELSE /\ min_gas_fee' = min_gas_fee
                 /\ \E written \in WriteOutcomes(logFault) :
                      IF written
                        THEN /\ records' = log_result(records, receiver, amount,
                                                      d = "Success")
                             /\ pc' = "stream"
                      ELSE IF r \in LoggedInTry
                        THEN \E rewritten \in WriteOutcomes(logFault) :
                               IF rewritten
                                 THEN /\ records' = log_result(records,
                                                       receiver, amount, FALSE)
                                      /\ pc' = "stream"
                                 ELSE /\ records' = records
                                      /\ pc' = IF app = 1 THEN "open"
                                               ELSE "stream"
                      ELSE /\ records' = records
                           /\ pc' = IF app = 1 THEN "open" ELSE "stream"
  /\ UNCHANGED <<configVars, cursor, savedCursor, streamPos, amount, current,
                 decision, lastYielded, openedAt>>

\* the process is terminated and started again: module level and main run
\* from the top (cursor = "now"); the persisted cursor and the ledger stay
Restart ==
  /\ pc' = "open"
  /\ cursor' = InitialCursor
  /\ lastYielded' = NoEvent
  /\ UNCHANGED <<configVars, ledger, savedCursor, streamPos, dispatcherVars,
                 decision, historyVars, openedAt>>

Next ==
  \/ LedgerAppend
  \/ OpenStream
  \/ StreamError
  \/ StreamYield
  \/ StreamYield2
  \/ send_payment
  \/ Restart

Spec == Init /\ [][Next]_vars

\* RECEIVER_ADDRESS is any address, the distributor's own included
InitReceiver ==
  /\ receiver \in {RECEIVER_ADDRESS, DISTRIBUTOR_ADDRESS}
  /\ logFault = FALSE
  /\ InitProgram

SpecReceiver == InitReceiver /\ [][Next]_vars

\* the log file is not always writable (disk full, logs directory removed)
InitLogFault ==
  /\ receiver = RECEIVER_ADDRESS
  /\ logFault = TRUE
  /\ InitProgram

SpecLogFault == InitLogFault /\ [][Next]_vars

\* handle_payment applied to one arbitrary event: the stream is open on an
\* empty history and an operation with any field values has just landed
InitHandle ==
  /\ app \in {1, 2}
  /\ receiver = RECEIVER_ADDRESS
  /\ logFault = FALSE
  /\ pc = "stream"
  /\ \E e \in Events : ledger = <<e>>
  /\ cursor = InitialCursor
  /\ savedCursor = NoCursor
  /\ streamPos = 0
  /\ min_gas_fee = DefaultFee
  /\ amount = 0
  /\ current = NoEvent
  /\ transients = 0
  /\ outages = 0
  /\ feeResponses = 0
  /\ response = "none"
  /\ records = <<>>
  /\ applied = 0
  /\ decision = "none"
  /\ observed = <<0>>
  /\ delivered = <<0>>
  /\ started = <<0>>
  /\ lastYielded = NoEvent
  /\ openedAt = 0

NextHandle ==
  \/ StreamYield
  \/ StreamYield2
  \/ send_payment

SpecHandle == InitHandle /\ [][NextHandle]_vars

\* ------------------------------------------------------ auxiliary notions
RECURSIVE Pow2(_)
Pow2(n) == IF n = 0 THEN 1 ELSE 2 * Pow2(n - 1)

\* a step that is one call of send_payment (no other step taken while
\* pc = "send" returns to the stream loop or changes what was received)
AttemptStep ==
  /\ pc = "send"
  /\ \/ pc' = "stream"
     \/ response' # response
     \/ transients' # transients
     \/ feeResponses' # feeResponses

\* the record log_result writes for the running invocation
Record(result) ==
  [result |-> result, destination |-> receiver, amount |-> amount]

\* a step that opens the stream
OpenStep == pc = "open" /\ pc' = "stream"

\* the six conditions of the event filter, stated independently of the code
SixHold(p) ==
  /\ p.type = "payment"
  /\ p.transaction_successful = TRUE
  /\ p.asset_type = "native"
  /\ p.to = DISTRIBUTOR_ADDRESS
  /\ p.from # DISTRIBUTOR_ADDRESS
  /\ p.amount >= MIN_INCOMING_XLM

Violated(p) ==
  {k \in 1 .. 6 :
     \/ k = 1 /\ p.type # "payment"
     \/ k = 2 /\ ~p.transaction_successful
     \/ k = 3 /\ p.asset_type # "native"
     \/ k = 4 /\ p.to # DISTRIBUTOR_ADDRESS
     \/ k = 5 /\ p.from = DISTRIBUTOR_ADDRESS
     \/ k = 6 /\ p.amount < MIN_INCOMING_XLM}

\* ------------------------------------------------------------------ claims

\* C1: an event observed on the stream is never delivered to handle_payment
\* a second time, over any stream errors, reconnects and restarts, so no
\* stream event starts more than one top-level send_payment call.
C1_NoDoubleDelivery ==
  \A i \in 1 .. Len(ledger) : delivered[i] <= 1 /\ started[i] <= 1

\* an event was forwarded, the stream was reopened after that, and a later
\* event was delivered too
C1_Witness ==
  \E i, j \in 1 .. Len(ledger) :
     /\ i <= openedAt
     /\ openedAt < j
     /\ started[i] = 1
     /\ delivered[j] = 1

\* C2: in app.py, within one invocation of send_payment the retry fee of
\* successive attempts never decreases.
C2_FeeNonDecreasing ==
  [][(app = 1 /\ pc = "send" /\ pc' = "send")
        => min_gas_fee' >= min_gas_fee]_vars

\* C3: after a timeout (504), tx_bad_seq or tx_too_late response to an
\* attempt made with retry fee f, the next attempt of the invocation is made
\* with the same retry fee f.
C3_TransientKeepsFee ==
  [][(AttemptStep /\ response' \in Transient)
        => (pc' = "send" /\ min_gas_fee' = min_gas_fee)]_vars

\* C4: handle_payment of app.py reaches the amount computation iff all six
\* filter conditions hold; an event violating one of them causes no
\* send_payment call and no log record.
C4_FilterIffSix ==
  (app = 1 /\ lastYielded = 1 /\ delivered[1] = 1) =>
     /\ (decision \in {"no_forward", "forward"}) <=> SixHold(ledger[1])
     /\ ~SixHold(ledger[1]) =>
          /\ decision = "filtered"
          /\ started[1] = 0
          /\ pc = "stream"
          /\ records = <<>>
          /\ Len(ledger) = 1

\* a self-payment that violates only the fifth condition was rejected
C4_Witness ==
  /\ app = 1
  /\ lastYielded = 1
  /\ delivered[1] = 1
  /\ Violated(ledger[1]) = {5}
  /\ ledger[1].amount = 8
  /\ decision = "filtered"
  /\ started[1] = 0

\* C5: in app.py the forwarded amount is floor(a * 25 / 100) units of the
\* incoming amount a, so it never exceeds 25% of a.
C5_AmountTruncated ==
  (app = 1 /\ lastYielded = 1 /\ delivered[1] = 1 /\ decision # "filtered") =>
     LET a == ledger[1].amount
         f == IF decision = "forward" THEN amount ELSE 0
     IN  /\ 100 * f <= 25 * a
         /\ 25 * a < 100 * (f + 1)
         /\ decision = "forward" <=> 25 * a >= 100

\* 7 units came in (25% is 1.75 units) and 1 unit is forwarded
C5_Witness ==
  /\ app = 1
  /\ lastYielded = 1
  /\ delivered[1] = 1
  /\ ledger[1].amount = 7
  /\ decision = "forward"
  /\ amount = 1

\* C6: in an invocation that receives only tx_insufficient_fee responses,
\* the k-th attempt uses retry fee 100 * 2^(k-1), and the first such response
\* received at a retry fee >= 2000 ends the invocation with one 'Failed'
\* record and no further attempt.
C6_FeeEscalation ==
  /\ []((pc = "send" /\ transients = 0)
          => min_gas_fee = 100 * Pow2(feeResponses))
  /\ [][(AttemptStep /\ transients = 0 /\ min_gas_fee >= 2000
            /\ response' = "tx_insufficient_fee")
          => (pc' = "stream" /\ records' = <<Record("Failed")>>)]_vars

\* six tx_insufficient_fee responses in a row: attempts at 100 .. 3200, and
\* the sixth one ended the invocation as failed
C6_Witness ==
  /\ pc = "stream"
  /\ transients = 0
  /\ feeResponses = 6
  /\ min_gas_fee = 3200
  /\ response = "tx_insufficient_fee"
  /\ records = <<Record("Failed")>>

\* C7: the number of tx_insufficient_fee responses one invocation can
\* receive is bounded by the doublings from 100 to the cap, whatever
\* transient responses come in between.
C7_FeeResponsesBounded == feeResponses <= 6

\* C8: an underfunded failure, an unclassified error or an unsuccessful
\* response ends the invocation: no further attempt, exactly one 'Failed'
\* record.
C8_TerminalNeverRetries ==
  [][(AttemptStep
        /\ response' \in {"op_underfunded", "other_error", "unsuccessful"})
      => (pc' = "stream" /\ records' = <<Record("Failed")>>)]_vars

\* an attempt made after a fee doubling was answered op_underfunded
C8_Witness ==
  /\ pc = "stream"
  /\ response = "op_underfunded"
  /\ feeResponses = 1
  /\ records = <<Record("Failed")>>

\* C9: in app.py every event the stream yields is handed to handle_payment,
\* also when save_cursor raises.
C9_EveryYieldedEventHandled ==
  app = 1 => \A i \in 1 .. Len(ledger) : observed[i] > 0 => delivered[i] > 0

\* C10: in app.py, once an event has been observed the cursor is the
\* paging_token of the most recent event the stream yielded, whatever became
\* of the event, and every reopening of the stream starts from it.
C10_CursorTracksLastEvent ==
  /\ []((app = 1 /\ lastYielded # NoEvent) => cursor = lastYielded)
  /\ [][(app = 1 /\ OpenStep /\ lastYielded # NoEvent)
          => streamPos' = lastYielded]_vars

\* a rejected event moved the cursor, and the stream was reopened from it
C10_Witness ==
  /\ app = 1
  /\ pc = "stream"
  /\ decision = "filtered"
  /\ Len(ledger) >= 2
  /\ delivered[2] = 1
  /\ lastYielded = 2
  /\ cursor = 2
  /\ openedAt = 2

\* C11: when the process starts, the first stream is opened from the cursor
\* most recently saved by a previous run if there is one, and from "now"
\* only when no cursor was ever saved.
C11_RestartResumesFromSaved ==
  [][(app = 1 /\ OpenStep /\ lastYielded = NoEvent)
        => streamPos' = IF savedCursor = NoCursor THEN Len(ledger)
                        ELSE savedCursor]_vars

\* C12: every invocation of send_payment that returns has written exactly
\* one record through log_result, 'Success' or 'Failed', carrying the
\* destination and the amount; the attempts that are retried write none.
C12_OneRecordPerInvocation ==
  [][AttemptStep =>
       \/ pc' = "send" /\ records' = <<>>
       \/ /\ pc' = "stream"
          /\ records' =
               <<Record(IF response' = "successful" THEN "Success"
                        ELSE "Failed")>>]_vars

\* an invocation that was retried twice and then succeeded left one record
C12_Witness ==
  /\ pc = "stream"
  /\ transients = 1
  /\ feeResponses = 1
  /\ response = "successful"
  /\ records = <<Record("Success")>>

\* C13: while an invocation of send_payment is submitting or waiting to
\* retry, no event is read from the stream and no second invocation starts,
\* so at most one invocation is active at any time.
C13_StrictSerialization ==
  [][pc = "send" =>
       /\ streamPos' = streamPos
       /\ current' = current
       /\ \A i \in 1 .. Len(ledger) :
            observed'[i] = observed[i] /\ started'[i] = started[i]]_vars

\* an invocation is waiting to retry while an unread event is on the stream
C13_Witness ==
  /\ pc = "send"
  /\ feeResponses = 1
  /\ streamPos < Len(ledger)
  /\ observed[Len(ledger)] = 0
  /\ ledger[Len(ledger)].from = OTHER_ADDRESS

\* C14: an event that passes the filter but whose forward amount (25% of
\* the incoming amount, cut to whole units) is <= 0, such as an incoming
\* 0.0000003, causes no submission attempt and no log record.
C14_NoForwardForZero ==
  (/\ lastYielded = 1
   /\ delivered[1] = 1
   /\ SixHold(ledger[1])
   /\ SEND_PERCENT * ledger[1].amount < 100) =>
     /\ decision = "no_forward"
     /\ started[1] = 0
     /\ pc = "stream"
     /\ records = <<>>

\* C15: in app2.py, after a stream error the stream is reopened from the
\* position of the last event the loop observed, so an event that lands
\* during the backoff is delivered after the reconnect.
C15_ReconnectFromLastEvent ==
  [][(app = 2 /\ OpenStep /\ lastYielded # NoEvent)
        => streamPos' = lastYielded]_vars

\* C16 as stated: the retry fee min_gas_fee passed to an attempt is at most
\* the cap 2000.
C16_FeeWithinCap == min_gas_fee <= FeeCap

\* C16 as amended: the retry fee passed to an attempt is below twice the cap
\* (at most 3200 from the floor 100), and a fee that has reached the cap is
\* never raised again.
C16_FeeBelowTwiceCap ==
  /\ [](min_gas_fee < 2 * FeeCap)
  /\ [][(AttemptStep /\ min_gas_fee >= FeeCap)
          => min_gas_fee' <= min_gas_fee]_vars

\* an attempt is about to be made with a fee above the cap
C16_Witness ==
  /\ pc = "send"
  /\ feeResponses = 5
  /\ min_gas_fee > FeeCap

\* C17: the payments the agent itself submits (source DISTRIBUTOR_ADDRESS)
\* never start an invocation of send_payment when they come back on the
\* stream, whatever RECEIVER_ADDRESS is, the distributor's own address
\* included; only payments of other accounts start one, and one each.
C17_NoSelfForwarding ==
  \A i \in 1 .. Len(ledger) :
     /\ ledger[i].from = DISTRIBUTOR_ADDRESS => started[i] = 0
     /\ started[i] <= 1

\* the receiver is the distributor itself: the forward came back on the
\* stream as an incoming payment, was handled and started nothing
C17_Witness ==
  /\ receiver = DISTRIBUTOR_ADDRESS
  /\ \E i \in 1 .. Len(ledger) :
       /\ ledger[i].from = DISTRIBUTOR_ADDRESS
       /\ ledger[i].to = DISTRIBUTOR_ADDRESS
       /\ ledger[i].amount = 4
       /\ delivered[i] = 1
       /\ started[i] = 0

\* C18: at most one forward is applied on the ledger for one qualifying
\* event, also when an attempt that ended in a gateway timeout (504) had in
\* fact been accepted by the network and send_payment retries.
C18_AtMostOneApplied == applied <= 1

\* C19: the logged outcome is the real one, also when a write of the log
\* record fails: an invocation whose submission was reported successful
\* produces no 'Failed' record, and a 'Success' record is produced only
\* after a successful submission.
C19_LogMatchesOutcome ==
  \A k \in 1 .. Len(records) :
     records[k].result = "Success" <=> response = "successful"

\* C20: for every stream event, handle_payment of app2.py starts a forward
\* iff handle_payment of app.py does, and with the same amount.
C20_HandlersAgree ==
  (app = 2 /\ lastYielded = 1 /\ delivered[1] = 1) =>
     LET payment == ledger[1]
         forwards == Filter(payment) /\ SendAmount(payment.amount) > 0
     IN  /\ decision = "forward" <=> forwards
         /\ forwards => amount = SendAmount(payment.amount)

====
